---- MODULE Spec2Model ----
(***************************************************************************)
(* A model of the mr_sim material-removal simulation (src/mr_sim): the     *)
(* Base grid/state core, the shape, pressure and velocity components, the  *)
(* Preston removal law and their composition through create_simulation.    *)
(*                                                                         *)
(* Numbers.  The program computes with floating point numbers; the model   *)
(* computes with exact reals of the form                                   *)
(*        sum_i (n_i / d_i) * pi^(p_i) * sqrt(r_i)                         *)
(* (r_i square-free), which is closed under every operation the modelled   *)
(* code applies (+, -, *, /, **, np.sqrt, np.pi).  A number is the set of  *)
(* its terms [n, d, p, r]; distinct (p, r) are linearly independent over   *)
(* the rationals, so two numbers are equal iff their term sets are equal.  *)
(***************************************************************************)
EXTENDS Integers, Sequences, FiniteSets, TLC

\* ------------------------------------------------------------------ numbers

Abs(i) == IF i < 0 THEN -i ELSE i

Sgn(i) == IF i > 0 THEN 1 ELSE IF i < 0 THEN -1 ELSE 0

RECURSIVE GCD(_, _)
GCD(a, b) == IF b = 0 THEN a ELSE GCD(b, a % b)

\* The number (n/d) * pi^p * sqrt(r), in lowest terms; d # 0, r >= 1 square-free.
Mono(n, d, p, r) ==
    IF n = 0 THEN {}
    ELSE LET g == GCD(Abs(n), Abs(d))
         IN  {[n |-> (Sgn(n) * Sgn(d)) * (Abs(n) \div g),
               d |-> Abs(d) \div g, p |-> p, r |-> r]}

Rat(n, d) == Mono(n, d, 0, 1)

Num(i) == Rat(i, 1)

Zero == {}

\* np.pi
np_pi == Mono(1, 1, 1, 1)

KeyOf(t) == <<t.p, t.r>>

HasKey(A, k) == \E t \in A : KeyOf(t) = k

TermAt(A, k) == CHOOSE t \in A : KeyOf(t) = k

CoefN(A, k) == IF HasKey(A, k) THEN TermAt(A, k).n ELSE 0

CoefD(A, k) == IF HasKey(A, k) THEN TermAt(A, k).d ELSE 1

\* a + b
Add(A, B) ==
    UNION { Mono(CoefN(A, k) * CoefD(B, k) + CoefN(B, k) * CoefD(A, k),
                 CoefD(A, k) * CoefD(B, k), k[1], k[2])
            : k \in {KeyOf(t) : t \in A \cup B} }

\* -a
Neg(A) == {[t EXCEPT !.n = -t.n] : t \in A}

\* a - b
Sub(A, B) == Add(A, Neg(B))

\* The product of two terms: sqrt(r1) * sqrt(r2) = g * sqrt((r1/g) * (r2/g)).
MulTerm(s, t) ==
    LET g == GCD(s.r, t.r)
    IN  Mono(s.n * t.n * g, s.d * t.d, s.p + t.p, (s.r \div g) * (t.r \div g))

RECURSIVE SumProducts(_)
SumProducts(P) ==
    IF P = {} THEN {}
    ELSE LET q == CHOOSE q \in P : TRUE
         IN  Add(MulTerm(q[1], q[2]), SumProducts(P \ {q}))

\* a * b
Mul(A, B) == SumProducts(A \X B)

\* a ** 2, a ** 3, a ** 4
Pow2(A) == Mul(A, A)

Pow3(A) == Mul(A, Pow2(A))

Pow4(A) == Pow2(Pow2(A))

TheTerm(A) == CHOOSE t \in A : TRUE

\* 1 / a, for a single-term a # 0: 1 / (q sqrt(r)) = sqrt(r) / (q r).
Inv(A) ==
    LET t == TheTerm(A)
    IN  Mono(t.d * Sgn(t.n), Abs(t.n) * t.r, -t.p, t.r)

\* a / b (true division), for a single-term b # 0.
Div(A, B) == Mul(A, Inv(B))

\* The largest k with k * k dividing m (m >= 1).
SqPart(m) ==
    LET S == {k \in 1..m : k * k <= m /\ m % (k * k) = 0}
    IN  CHOOSE k \in S : \A j \in S : j <= k

\* np.sqrt(a), for a rational a >= 0: sqrt(n/d) = sqrt(n d) / d.
Sqrt(A) ==
    IF A = {} THEN {}
    ELSE LET t == TheTerm(A)
             m == t.n * t.d
             k == SqPart(m)
         IN  Mono(k, t.d, 0, m \div (k * k))

\* The sign of a: -1, 0 or 1.  pi and the square roots are positive, so a sum
\* of terms of one sign has that sign; of two terms of opposite sign and the
\* same power of pi, the one of larger square decides.
Sign(A) ==
    CASE A = {} -> 0
      [] A # {} /\ (\A t \in A : t.n > 0) -> 1
      [] A # {} /\ (\A t \in A : t.n < 0) -> -1
      [] Cardinality(A) = 2 /\ (\E s, t \in A : s.n > 0 /\ t.n < 0 /\ s.p = t.p) ->
            LET s == CHOOSE s \in A : s.n > 0
                t == CHOOSE t \in A : t.n < 0
            IN  IF s.n * s.n * s.r * t.d * t.d > t.n * t.n * t.r * s.d * s.d
                THEN 1 ELSE -1

Lt(A, B) == Sign(Sub(A, B)) < 0

Le(A, B) == Sign(Sub(A, B)) <= 0

\* A rational bound of the number A, from below (up = FALSE) or from above
\* (up = TRUE), with 333/106 < pi < 22/7 and the square roots to 1/100;
\* the powers of pi are between -2 and 2.
RECURSIVE Bound(_, _)
Bound(A, up) ==
    IF A = {} THEN {}
    ELSE LET t  == CHOOSE t \in A : TRUE
             hi == (t.n > 0) = up
             k  == CHOOSE k \in 0..(100 * t.r) :
                      k * k <= 10000 * t.r /\ (k + 1) * (k + 1) > 10000 * t.r
             rt == IF k * k = 10000 * t.r THEN Rat(k, 100)
                   ELSE IF hi THEN Rat(k + 1, 100) ELSE Rat(k, 100)
             pl == IF hi = (t.p > 0) THEN Rat(22, 7) ELSE Rat(333, 106)
             pw == CASE t.p = 0 -> Num(1)
                     [] t.p = 1 -> pl
                     [] t.p = -1 -> Inv(pl)
                     [] t.p = 2 -> Mul(pl, pl)
                     [] t.p = -2 -> Inv(Mul(pl, pl))
         IN  Add(Mul(Rat(t.n, t.d), Mul(pw, rt)), Bound(A \ {t}, up))

\* The sign of a, for a sum of terms of both signs: decided by the bounds.
SignOf(A) ==
    CASE A = {} -> 0
      [] A # {} /\ Sign(Bound(A, FALSE)) > 0 -> 1
      [] A # {} /\ Sign(Bound(A, TRUE)) < 0 -> -1

\* Python's None, and the marker of an attribute the object does not have;
\* neither is a number (d = 0).
None == {[n |-> 0, d |-> 0, p |-> 0, r |-> 0]}

Absent == {[n |-> 0, d |-> 0, p |-> 0, r |-> 2]}

\* Python's True and False (bool is a subclass of int: True == 1, False == 0).
PyTrue == Num(1)

PyFalse == Num(0)

Truthy(A) == A # None /\ A # Zero

\* The floating point values that are not numbers: inf (s = 1), -inf
\* (s = -1) and nan (s = 0).
Inf(s) == {[n |-> s, d |-> 0, p |-> 0, r |-> 1]}

Finite(A) == \A t \in A : t.d # 0

\* a / b for numpy floats a and b, b finite with one term: a division by 0
\* is nan or an infinity, with a warning.
np_divide(A, B) ==
    IF A = Inf(0) \/ B = Inf(0) \/ (~Finite(A) /\ ~Finite(B)) THEN Inf(0)
    ELSE IF ~Finite(A) THEN (IF Sign(B) < 0 THEN Neg(A) ELSE A)
    ELSE IF ~Finite(B) THEN Zero
    ELSE IF B = Zero THEN Inf(Sign(A))
    ELSE Div(A, B)

\* ----------------------------------------------------------- the classes

ShapeClasses == {"Round", "Rectangular", "Square"}

PressureClasses == {"Flat", "ConstantCurvature"}

VelocityClasses == {"Orbital", "Belt", "Rotary"}

\* The classes a component class brings into the method resolution order
\* before Base: itself and its bases, most derived first.
Bases(c) ==
    CASE c = "Round" -> <<"Round", "BaseShape">>
      [] c = "Rectangular" -> <<"Rectangular", "BaseShape">>
      [] c = "Square" -> <<"Square", "Rectangular", "BaseShape">>
      [] OTHER -> <<c>>

RECURSIVE Linearize(_)
Linearize(classes) ==
    IF classes = <<>> THEN <<"Base">>
    ELSE Bases(Head(classes)) \o Linearize(Tail(classes))

\* class Simulation(*classes): pass -- the method resolution order of the
\* class create_simulation returns, without Simulation itself and object.
create_simulation(classes) == Linearize(classes)

InMro(m, c) == \E i \in 1..Len(m) : m[i] = c

\* The first class of the order among those of S (the one whose method wins).
FirstOf(m, S) ==
    IF \E i \in 1..Len(m) : m[i] \in S
    THEN m[CHOOSE i \in 1..Len(m) : m[i] \in S /\ \A j \in 1..(i - 1) : m[j] \notin S]
    ELSE "none"

\* ------------------------------------------------- construction arguments

\* The arguments of a construction: size_x and size_y are positional, the
\* others are keyword arguments; Absent stands for "not passed".
NoArgs ==
    [size_x |-> Absent, size_y |-> Absent, dx |-> Absent, dy |-> Absent,
     dt |-> Absent, auto_velocity |-> Absent, antialias |-> Absent,
     antialias_dist |-> Absent, radius |-> Absent, width |-> Absent,
     height |-> Absent, kx |-> Absent, ky |-> Absent, stiffness |-> Absent,
     eccentricity |-> Absent, kp |-> Absent]

\* A keyword argument, or its default when it is not passed.
Arg(v, default) == IF v = Absent THEN default ELSE v

\* The attributes of an object before any __init__ has set one.
NoAttrs ==
    [dt |-> Absent, auto_vel |-> Absent, x |-> Absent, y |-> Absent,
     vl_x |-> Absent, vl_y |-> Absent, antialias |-> Absent,
     antialias_dist |-> Absent, r |-> Absent, width |-> Absent,
     height |-> Absent, area |-> Absent, Ix |-> Absent, Iy |-> Absent,
     force |-> Absent, torque_x |-> Absent, torque_y |-> Absent,
     kx |-> Absent, ky |-> Absent, stiffness |-> Absent, dx |-> Absent,
     dy |-> Absent, eccentricity |-> Absent, orbital_speed |-> Absent,
     rotational_speed |-> Absent, speed |-> Absent, kp |-> Absent]

\* An object under construction: the exception raised so far ("" for none),
\* its attributes, the axes of its grid, and how often Base.__init__ ran.
NoObject ==
    [err |-> "", a |-> NoAttrs, xs |-> <<>>, ys |-> <<>>, base_inits |-> 0,
     base_kw |-> NoArgs]

Raise(o, e) == [o EXCEPT !.err = e]

\* The ceiling of a rational q >= 0.
Ceil(q) ==
    IF q = {} THEN 0
    ELSE LET t == TheTerm(q) IN IF t.n < 0 THEN 0 ELSE (t.n + t.d - 1) \div t.d

\* np.arange(start, stop, step) for step > 0.
np_arange(start, stop, step) ==
    [k \in 1..Ceil(Div(Sub(stop, start), step)) |-> Add(start, Mul(Num(k - 1), step))]

\* ------------------------------------------------------------ the setters
\* Each takes the attributes of the object (self) and returns them after the call.

\* Base.set_location(x, y) with the velocity left as the displacement, not
\* divided by dt.
Base_set_location_undivided(a, x, y) ==
    LET seeded == IF a.x = None \/ a.y = None
                  THEN [a EXCEPT !.x = x, !.y = y]
                  ELSE a
        moved  == IF Truthy(a.auto_vel)
                  THEN [seeded EXCEPT !.vl_x = Sub(x, seeded.x),
                                      !.vl_y = Sub(y, seeded.y)]
                  ELSE a
    IN  [moved EXCEPT !.x = x, !.y = y]

\* Base.set_location that computes the velocity whatever auto_vel is.
Base_set_location_always(a, x, y) ==
    LET seeded == IF a.x = None \/ a.y = None
                  THEN [a EXCEPT !.x = x, !.y = y]
                  ELSE a
    IN  [seeded EXCEPT !.vl_x = Div(Sub(x, seeded.x), a.dt),
                       !.vl_y = Div(Sub(y, seeded.y), a.dt),
                       !.x = x, !.y = y]

\* Base.set_location that keeps a velocity given through set_velocity:
\* it computes one only while vl_x and vl_y are 0.
Base_set_location_keeping(a, x, y) ==
    LET seeded == IF a.x = None \/ a.y = None
                  THEN [a EXCEPT !.x = x, !.y = y]
                  ELSE a
        moved  == IF Truthy(a.auto_vel) /\ a.vl_x = Zero /\ a.vl_y = Zero
                  THEN [seeded EXCEPT !.vl_x = Div(Sub(x, seeded.x), a.dt),
                                      !.vl_y = Div(Sub(y, seeded.y), a.dt)]
                  ELSE a
    IN  [moved EXCEPT !.x = x, !.y = y]

\* Base.set_location(x, y)
Base_set_location(a, x, y) ==
    LET seeded == IF a.x = None \/ a.y = None
                  THEN [a EXCEPT !.x = x, !.y = y]
                  ELSE a
        moved  == IF Truthy(a.auto_vel)
                  THEN [seeded EXCEPT !.vl_x = Div(Sub(x, seeded.x), a.dt),
                                      !.vl_y = Div(Sub(y, seeded.y), a.dt)]
                  ELSE a
    IN  [moved EXCEPT !.x = x, !.y = y]

\* Base.set_velocity(x, y)
Base_set_velocity(a, x, y) == [a EXCEPT !.vl_x = x, !.vl_y = y]

\* Round.radius = r (the property setter)
Round_radius(a, r) ==
    [a EXCEPT !.r = r,
              !.area = Mul(np_pi, Pow2(r)),
              !.Ix = Div(Mul(np_pi, Pow4(r)), Num(4)),
              !.Iy = Div(Mul(np_pi, Pow4(r)), Num(4))]

\* Rectangular._set_size(width, height) with Ix and Iy exchanged.
Rectangular__set_size_swapped(a, width, height) ==
    [a EXCEPT !.width = width,
              !.height = height,
              !.area = Mul(width, height),
              !.Ix = Div(Mul(Pow3(width), height), Num(12)),
              !.Iy = Div(Mul(width, Pow3(height)), Num(12))]

\* Rectangular._set_size(width, height)
Rectangular__set_size(a, width, height) ==
    [a EXCEPT !.width = width,
              !.height = height,
              !.area = Mul(width, height),
              !.Ix = Div(Mul(width, Pow3(height)), Num(12)),
              !.Iy = Div(Mul(Pow3(width), height), Num(12))]

\* Rectangular.set_size(width, height)
Rectangular_set_size(a, width, height) == Rectangular__set_size(a, width, height)

\* Square.set_size(width) that keeps the height.
Square_set_size_width_only(a, width) == Rectangular__set_size(a, width, a.height)

\* Square.set_size(width)
Square_set_size(a, width) == Rectangular__set_size(a, width, width)

\* Flat.set_force(force) and ConstantCurvature.set_force(force)
Flat_set_force(a, force) == [a EXCEPT !.force = force]

ConstantCurvature_set_force(a, force) == [a EXCEPT !.force = force]

\* Flat.set_torque(x, y)
Flat_set_torque(a, x, y) == [a EXCEPT !.torque_x = x, !.torque_y = y]

\* ConstantCurvature.set_curvature(kx, ky)
ConstantCurvature_set_curvature(a, kx, ky) == [a EXCEPT !.kx = kx, !.ky = ky]

\* Orbital.set_speed(orbital_speed, rotational_speed)
Orbital_set_speed(a, orbital_speed, rotational_speed) ==
    [a EXCEPT !.orbital_speed = orbital_speed, !.rotational_speed = rotational_speed]

\* Belt.set_speed(speed) and Rotary.set_speed(speed)
Belt_set_speed(a, speed) == [a EXCEPT !.speed = speed]

Rotary_set_speed(a, speed) == [a EXCEPT !.speed = speed]

\* ----------------------------------------------------------- construction
\* Every __init__ takes its own keyword arguments, passes the others to
\* super().__init__, the next class of the method resolution order, and sets
\* its attributes when that returns.  InitChain(m, kw) is the call of the
\* __init__ of Head(m) with the arguments kw.

DefaultSpacing == Rat(1, 1000)

\* Base.__init__(size_x, size_y, dx=0.001, dy=0.001, dt=1, auto_velocity=False)
Base___init__(kw) ==
    IF \/ kw.size_x = Absent \/ kw.size_y = Absent
       \/ \E v \in {kw.antialias, kw.antialias_dist, kw.radius, kw.width, kw.height,
                    kw.kx, kw.ky, kw.stiffness, kw.eccentricity, kw.kp} : v # Absent
    THEN Raise(NoObject, "TypeError")
    ELSE [err |-> "",
          a |-> [NoAttrs EXCEPT !.dt = Arg(kw.dt, Num(1)),
                                !.auto_vel = Arg(kw.auto_velocity, PyFalse),
                                !.x = None, !.y = None,
                                !.vl_x = Zero, !.vl_y = Zero],
          xs |-> np_arange(Neg(Div(kw.size_x, Num(2))), Div(kw.size_x, Num(2)),
                           Arg(kw.dx, DefaultSpacing)),
          ys |-> np_arange(Neg(Div(kw.size_y, Num(2))), Div(kw.size_y, Num(2)),
                           Arg(kw.dy, DefaultSpacing)),
          base_inits |-> 1,
          base_kw |-> kw]

RECURSIVE InitChain(_, _)

\* Preston.__init__(*args, kp=1, **kwargs)
Preston___init__(rest, kw) ==
    LET o == InitChain(rest, [kw EXCEPT !.kp = Absent])
    IN  IF o.err # "" THEN o ELSE [o EXCEPT !.a.kp = Arg(kw.kp, Num(1))]

\* Orbital.__init__(*args, eccentricity=None, **kwargs)
Orbital___init__(rest, kw) ==
    LET o == InitChain(rest, [kw EXCEPT !.eccentricity = Absent])
    IN  IF o.err # "" THEN o
        ELSE IF Arg(kw.eccentricity, None) = None THEN Raise(o, "ValueError")
        ELSE [o EXCEPT !.a.eccentricity = kw.eccentricity,
                       !.a.orbital_speed = Zero,
                       !.a.rotational_speed = Zero]

\* Belt.__init__(*args, **kwargs)
Belt___init__(rest, kw) ==
    LET o == InitChain(rest, kw)
    IN  IF o.err # "" THEN o ELSE [o EXCEPT !.a.speed = Zero]

\* Rotary.__init__(*args, **kwargs)
Rotary___init__(rest, kw) ==
    LET o == InitChain(rest, kw)
    IN  IF o.err # "" THEN o ELSE [o EXCEPT !.a.speed = Zero]

\* Flat.__init__(*args, **kwargs)
Flat___init__(rest, kw) ==
    LET o == InitChain(rest, kw)
    IN  IF o.err # "" THEN o
        ELSE [o EXCEPT !.a.force = Zero, !.a.torque_x = Zero, !.a.torque_y = Zero]

\* ConstantCurvature.__init__ that hands its own keywords on with the rest:
\*     super().__init__(*args, kx=kx, ky=ky, stiffness=stiffness, dx=dx, dy=dy,
\*                      **kwargs)
ConstantCurvature___init___unstripped(rest, kw) ==
    LET dx == Arg(kw.dx, DefaultSpacing)
        dy == Arg(kw.dy, DefaultSpacing)
        o  == InitChain(rest, [kw EXCEPT !.kx = Arg(kw.kx, Zero),
                                         !.ky = Arg(kw.ky, Zero),
                                         !.stiffness = Arg(kw.stiffness, None),
                                         !.dx = dx, !.dy = dy])
        o1 == [o EXCEPT !.a.force = Zero, !.a.kx = Arg(kw.kx, Zero),
                        !.a.ky = Arg(kw.ky, Zero)]
    IN  IF o.err # "" THEN o
        ELSE IF Arg(kw.stiffness, None) = None THEN Raise(o1, "ValueError")
        ELSE [o1 EXCEPT !.a.stiffness = kw.stiffness, !.a.dx = dx, !.a.dy = dy]

\* ConstantCurvature.__init__(*args, kx=0, ky=0, stiffness=None, dx=0.001,
\*                            dy=0.001, **kwargs)
ConstantCurvature___init__(rest, kw) ==
    LET dx == Arg(kw.dx, DefaultSpacing)
        dy == Arg(kw.dy, DefaultSpacing)
        o  == InitChain(rest, [kw EXCEPT !.kx = Absent, !.ky = Absent,
                                         !.stiffness = Absent, !.dx = dx, !.dy = dy])
        o1 == [o EXCEPT !.a.force = Zero, !.a.kx = Arg(kw.kx, Zero),
                        !.a.ky = Arg(kw.ky, Zero)]
    IN  IF o.err # "" THEN o
        ELSE IF Arg(kw.stiffness, None) = None THEN Raise(o1, "ValueError")
        ELSE [o1 EXCEPT !.a.stiffness = kw.stiffness, !.a.dx = dx, !.a.dy = dy]

\* BaseShape.__init__(*args, antialias=True, antialias_dist=None, **kwargs)
BaseShape___init__(rest, kw) ==
    LET o  == InitChain(rest, [kw EXCEPT !.antialias = Absent, !.antialias_dist = Absent])
        o1 == [o EXCEPT !.a.antialias = Arg(kw.antialias, PyTrue),
                        !.a.antialias_dist = Arg(kw.antialias_dist, None)]
    IN  IF o.err # "" THEN o
        ELSE IF o1.a.antialias_dist # None THEN o1
        ELSE IF o1.a.dx = Absent \/ o1.a.dy = Absent THEN Raise(o1, "AttributeError")
        ELSE [o1 EXCEPT !.a.antialias_dist = Sqrt(Add(Pow2(o1.a.dx), Pow2(o1.a.dy)))]

\* Round.__init__(*args, radius=None, **kwargs)
Round___init__(rest, kw) ==
    LET o == InitChain(rest, [kw EXCEPT !.radius = Absent])
    IN  IF o.err # "" THEN o
        ELSE IF Arg(kw.radius, None) = None THEN Raise(o, "ValueError")
        ELSE [o EXCEPT !.a = Round_radius(o.a, kw.radius)]

\* Rectangular.__init__(*args, width=None, height=None, **kwargs)
Rectangular___init__(rest, kw) ==
    IF Arg(kw.width, None) = None THEN Raise(NoObject, "ValueError")
    ELSE IF Arg(kw.height, None) = None THEN Raise(NoObject, "ValueError")
    ELSE LET o == InitChain(rest, [kw EXCEPT !.width = Absent, !.height = Absent])
         IN  IF o.err # "" THEN o
             ELSE [o EXCEPT !.a = Rectangular__set_size(o.a, kw.width, kw.height)]

\* Square.__init__(*args, width=None, **kwargs):
\*     super().__init__(*args, width=width, height=width, **kwargs)
Square___init__(rest, kw) ==
    IF kw.height # Absent THEN Raise(NoObject, "TypeError")
    ELSE InitChain(rest, [kw EXCEPT !.width = Arg(kw.width, None),
                                    !.height = Arg(kw.width, None)])

InitChain(m, kw) ==
    LET c == Head(m)
        rest == Tail(m)
    IN  CASE c = "Base" -> Base___init__(kw)
          [] c = "Preston" -> Preston___init__(rest, kw)
          [] c = "Orbital" -> Orbital___init__(rest, kw)
          [] c = "Belt" -> Belt___init__(rest, kw)
          [] c = "Rotary" -> Rotary___init__(rest, kw)
          [] c = "Flat" -> Flat___init__(rest, kw)
          [] c = "ConstantCurvature" -> ConstantCurvature___init__(rest, kw)
          [] c = "BaseShape" -> BaseShape___init__(rest, kw)
          [] c = "Round" -> Round___init__(rest, kw)
          [] c = "Rectangular" -> Rectangular___init__(rest, kw)
          [] c = "Square" -> Square___init__(rest, kw)

\* Simulation(size_x, size_y, **kw) for Simulation = create_simulation(*classes)
Construct(classes, kw) == InitChain(create_simulation(classes), kw)

\* ------------------------------------------------------------- the methods
\* An array is a function from the cells of the grid to numbers.  A method
\* that takes arrays returns [err, v]: the exception it raises ("" for none)
\* and the array it returns.

Returns(v) == [err |-> "", v |-> v]

Raises(e) == [err |-> e, v |-> <<>>]

\* A Python bool used as a number.
Bool(b) == IF b THEN PyTrue ELSE PyFalse

\* BaseShape._antialias(x) for one number x:
\*   (x < -dist) + (x - dist) / dist * (dist > x > -dist)   if self.antialias
\*   self.antialias                                          otherwise
BaseShape__antialias(a, x) ==
    IF Truthy(a.antialias)
    THEN Add(Bool(Lt(x, Neg(a.antialias_dist))),
             Mul(Div(Sub(x, a.antialias_dist), a.antialias_dist),
                 Bool(Lt(x, a.antialias_dist) /\ Lt(Neg(a.antialias_dist), x))))
    ELSE a.antialias

\* BaseShape._antialias(x) for an array x of n elements: the chained
\* comparison dist > x > -dist is (dist > x) and (x > -dist), and the truth
\* value of an array of more than one element is a ValueError.
BaseShape__antialias_err(a, n) ==
    IF Truthy(a.antialias) /\ n > 1 THEN "ValueError" ELSE ""

\* Round.shape(x, y) at one cell
Round_shape_cell(a, x, y) ==
    BaseShape__antialias(a, Sub(Add(Pow2(x), Pow2(y)), Pow2(a.r)))

\* Rectangular.shape(x, y) at one cell
Rectangular_shape_cell(a, x, y) ==
    Mul(Mul(Mul(BaseShape__antialias(a, Add(Div(a.width, Num(2)), x)),
                BaseShape__antialias(a, Sub(Div(a.width, Num(2)), x))),
            BaseShape__antialias(a, Add(Div(a.height, Num(2)), y))),
        BaseShape__antialias(a, Sub(Div(a.height, Num(2)), y)))

\* self.shape(x, y) at one cell, by the class that defines it (Square
\* inherits Rectangular.shape).
shape_cell(m, a, x, y) ==
    IF FirstOf(m, {"Round", "Rectangular"}) = "Round"
    THEN Round_shape_cell(a, x, y)
    ELSE Rectangular_shape_cell(a, x, y)

\* self.shape(x, y) for arrays x, y
shape(m, a, x, y) ==
    IF BaseShape__antialias_err(a, Cardinality(DOMAIN x)) # ""
    THEN Raises(BaseShape__antialias_err(a, Cardinality(DOMAIN x)))
    ELSE Returns([c \in DOMAIN x |-> shape_cell(m, a, x[c], y[c])])

\* Flat.pressure with the second moments Ix and Iy exchanged.
Flat_pressure_cell_swapped(a, x, y) ==
    Sub(Add(Div(a.force, a.area), Div(Mul(x, a.torque_y), a.Ix)),
        Div(Mul(y, a.torque_x), a.Iy))

\* Flat.pressure(x, y) at one cell
Flat_pressure_cell(a, x, y) ==
    Sub(Add(Div(a.force, a.area), Div(Mul(x, a.torque_y), a.Iy)),
        Div(Mul(y, a.torque_x), a.Ix))

\* Flat.pressure(x, y) for arrays: self.force / self.area divides two
\* Python numbers, a ZeroDivisionError when the area is 0.
Flat_pressure(a, x, y) ==
    IF a.area = Zero THEN Raises("ZeroDivisionError")
    ELSE Returns([c \in DOMAIN x |-> Flat_pressure_cell(a, x[c], y[c])])

\* The inner function pressure(d) of ConstantCurvature.pressure at one cell,
\* where w is the value of shape at the cell:
\*   p = stiffness * (d - kx * x ** 2 / 2 - ky * y ** 2 / 2);  p *= shape * (p > 0)
ConstantCurvature_pressure_cell(a, x, y, d, w) ==
    LET p == Mul(a.stiffness,
                 Sub(Sub(d, Div(Mul(a.kx, Pow2(x)), Num(2))),
                     Div(Mul(a.ky, Pow2(y)), Num(2))))
    IN  Mul(p, Mul(w, Bool(Sign(p) > 0)))

\* Where ConstantCurvature.pressure takes its penetration depth from, for
\* Python numbers force, kx, ky, radius and a stiffness that is not 0:
\*   "small"    the closed form d = sqrt(force sqrt(kx ky) / (stiffness pi)),
\*              taken when radius >= sqrt(2 d / min(kx, ky));
\*   "full"     the closed form d = force / (stiffness pi radius^2)
\*              + radius^2 (kx + ky) / 8, taken when
\*              radius <= sqrt(2 d / max(kx, ky));
\*   "minimize" scipy's minimize_scalar;
\*   "ZeroDivisionError" when a division of Python numbers is by 0.
\* The first d is a numpy number: np.sqrt of a negative number and 0 / 0
\* are nan, which compares False, and sqrt(-0.0) is -0.0.
ConstantCurvature_depth(m, a) ==
    LET q  == Mul(a.kx, a.ky)
        t  == Div(Mul(a.force, Sqrt(q)), Mul(a.stiffness, np_pi))
        mn == IF Lt(a.kx, a.ky) THEN a.kx ELSE a.ky
        mx == IF Lt(a.kx, a.ky) THEN a.ky ELSE a.kx
        r2 == Pow2(a.r)
        small ==
            /\ Sign(q) >= 0
            /\ Sign(t) >= 0
            /\ Sign(mn) # 0
            /\ Sign(mn) < 0 => t = Zero
            /\ Sign(a.r) >= 0
            /\ Sign(mn) > 0 => SignOf(Sub(Pow2(Div(Mul(r2, mn), Num(2))), t)) >= 0
        d  == Add(Div(a.force, Mul(Mul(a.stiffness, np_pi), r2)),
                  Div(Mul(r2, Add(a.kx, a.ky)), Num(8)))
        v  == Div(Mul(Num(2), d), mx)
        full == SignOf(v) >= 0 /\ (Sign(a.r) < 0 \/ SignOf(Sub(v, r2)) >= 0)
    IN  IF ~InMro(m, "Round")
        THEN IF a.area = Zero THEN "ZeroDivisionError" ELSE "minimize"
        ELSE IF small THEN "small"
        ELSE IF a.r = Zero \/ mx = Zero THEN "ZeroDivisionError"
        ELSE IF full THEN "full"
        ELSE "minimize"

\* ConstantCurvature.pressure(x, y) for arrays, given w = self.shape(x, y)
\* and src, where the depth comes from.  d is the penetration depth the
\* closed forms or scipy's minimize_scalar arrive at, a floating point
\* approximation the model leaves open (any d of Depths).
ConstantCurvature_pressure_masked(a, x, y, d, w, src) ==
    IF w.err # "" THEN w
    ELSE IF src = "ZeroDivisionError" THEN Raises(src)
    ELSE Returns([c \in DOMAIN x |->
                    ConstantCurvature_pressure_cell(a, x[c], y[c], d, w.v[c])])

\* ConstantCurvature.pressure(x, y): shape = self.shape(x, y) comes first.
ConstantCurvature_pressure(m, a, x, y, d) ==
    ConstantCurvature_pressure_masked(a, x, y, d, shape(m, a, x, y),
                                      ConstantCurvature_depth(m, a))

\* self.pressure(x, y), by the first class of the order that defines it
pressure(m, a, x, y, d) ==
    IF FirstOf(m, PressureClasses) = "Flat"
    THEN Flat_pressure(a, x, y)
    ELSE ConstantCurvature_pressure(m, a, x, y, d)

\* Orbital.velocity(x, y) at one cell
Orbital_velocity(a, x, y) ==
    Sqrt(Add(Pow2(Mul(a.eccentricity, a.orbital_speed)),
             Mul(Add(Pow2(x), Pow2(y)), Pow2(a.rotational_speed))))

\* Belt.velocity(x, y) with the feed velocity added in quadrature.
Belt_velocity_quadrature(a, x, y) ==
    Sqrt(Add(Pow2(a.speed), Add(Pow2(a.vl_x), Pow2(a.vl_y))))

\* Belt.velocity(x, y): self.speed, the same at every cell
Belt_velocity(a, x, y) == a.speed

\* Rotary.velocity(x, y) with the feed velocity added in quadrature.
Rotary_velocity_quadrature(a, x, y) ==
    Sqrt(Add(Mul(Add(Pow2(x), Pow2(y)), Pow2(a.speed)),
             Add(Pow2(a.vl_x), Pow2(a.vl_y))))

\* Rotary.velocity(x, y) at one cell
Rotary_velocity(a, x, y) == Mul(Sqrt(Add(Pow2(x), Pow2(y))), a.speed)

\* self.velocity(x, y) at one cell, by the first class of the order that defines it
velocity_cell(m, a, x, y) ==
    CASE FirstOf(m, VelocityClasses) = "Orbital" -> Orbital_velocity(a, x, y)
      [] FirstOf(m, VelocityClasses) = "Belt" -> Belt_velocity(a, x, y)
      [] FirstOf(m, VelocityClasses) = "Rotary" -> Rotary_velocity(a, x, y)

\* self.pressure(x, y) * self.velocity(x, y), without the factor kp
Preston_mrr_of_unscaled(m, a, x, y, p) ==
    IF p.err # "" THEN p
    ELSE Returns([c \in DOMAIN x |-> Mul(p.v[c], velocity_cell(m, a, x[c], y[c]))])

\* self.kp * p * self.velocity(x, y) for the array p = self.pressure(x, y)
Preston_mrr_of(m, a, x, y, p) ==
    IF p.err # "" THEN p
    ELSE Returns([c \in DOMAIN x |->
                    Mul(Mul(a.kp, p.v[c]), velocity_cell(m, a, x[c], y[c]))])

\* Preston.mrr(x, y): self.kp * self.pressure(x, y) * self.velocity(x, y)
Preston_mrr(m, a, x, y, d) == Preston_mrr_of(m, a, x, y, pressure(m, a, x, y, d))

\* Base.local_grid() that returns the grid as it is, not translated.
Base_local_grid_untranslated(a, XX, YY) ==
    IF a.x = None \/ a.y = None THEN Raises("TypeError")
    ELSE Returns([gx |-> XX, gy |-> YY])

\* Base.local_grid() that takes a pose never set for the origin.
Base_local_grid_origin(a, XX, YY) ==
    IF a.x = None \/ a.y = None THEN Returns([gx |-> XX, gy |-> YY])
    ELSE Returns([gx |-> [c \in DOMAIN XX |-> Sub(XX[c], a.x)],
                  gy |-> [c \in DOMAIN YY |-> Sub(YY[c], a.y)]])

\* Base.local_grid(): self.X - self.x, self.Y - self.y; an array minus None
\* is a TypeError.
Base_local_grid(a, XX, YY) ==
    IF a.x = None \/ a.y = None THEN Raises("TypeError")
    ELSE Returns([gx |-> [c \in DOMAIN XX |-> Sub(XX[c], a.x)],
                  gy |-> [c \in DOMAIN YY |-> Sub(YY[c], a.y)]])

\* self.mrr(*self.local_grid())
Base_step_mrr(m, a, grid, d) ==
    IF grid.err # "" THEN grid
    ELSE Preston_mrr(m, a, grid.v.gx, grid.v.gy, d)

\* self.profile -= self.dt * rate
Base_step_subtract(a, prof, rate) ==
    IF rate.err # "" THEN [err |-> rate.err, profile |-> prof]
    ELSE [err |-> "",
          profile |-> [c \in DOMAIN prof |-> Sub(prof[c], Mul(a.dt, rate.v[c]))]]

\* self.profile = self.dt * rate
Base_step_assign(a, prof, rate) ==
    IF rate.err # "" THEN [err |-> rate.err, profile |-> prof]
    ELSE [err |-> "", profile |-> [c \in DOMAIN prof |-> Mul(a.dt, rate.v[c])]]

\* Base.step() that clears the profile before it computes the rate:
\*     self.profile[:] = 0; self.profile += self.dt * rate
Base_step_add_cleared(a, prof, rate) ==
    IF rate.err # "" THEN [err |-> rate.err, profile |-> [c \in DOMAIN prof |-> Zero]]
    ELSE [err |-> "", profile |-> [c \in DOMAIN prof |-> Mul(a.dt, rate.v[c])]]

\* self.profile += self.dt * rate, for the array rate = self.mrr(...); an
\* exception raised on the way leaves profile as it was, and a cell that is
\* nan or an infinity stays so.
Base_step_add(a, prof, rate) ==
    IF rate.err # "" THEN [err |-> rate.err, profile |-> prof]
    ELSE [err |-> "",
          profile |-> [c \in DOMAIN prof |->
                         IF Finite(prof[c]) THEN Add(prof[c], Mul(a.dt, rate.v[c]))
                         ELSE prof[c]]]

\* Base.step(): self.profile += self.dt * self.mrr(*self.local_grid())
Base_step(m, a, XX, YY, prof, d) ==
    Base_step_add(a, prof, Base_step_mrr(m, a, Base_local_grid(a, XX, YY), d))

\* data.max() for the array data: nan if a cell is nan.
np_max(data) ==
    IF \E c \in DOMAIN data : data[c] = Inf(0) THEN Inf(0)
    ELSE IF \E c \in DOMAIN data : data[c] = Inf(1) THEN Inf(1)
    ELSE IF \A c \in DOMAIN data : data[c] = Inf(-1) THEN Inf(-1)
    ELSE LET F == {c \in DOMAIN data : Finite(data[c])}
         IN  data[CHOOSE c \in F : \A e \in F : Le(data[e], data[c])]

\* Base.plot(normalize): data = self.profile; if normalize: data /= data.max().
\* data is the array of the object, not a copy, and /= divides it in place;
\* the value is the profile the call leaves (the image is not modelled).
Base_plot(prof, normalize) ==
    IF Truthy(normalize)
    THEN [c \in DOMAIN prof |-> np_divide(prof[c], np_max(prof))]
    ELSE prof

\* ------------------------------------------------------------------- state

VARIABLES
    mro,        \* the class of the object: its method resolution order
    made,       \* whether the construction returned an object
    sim,        \* the attributes of the object (self)
    X, Y,       \* the grid: the coordinates of each cell
    profile,    \* the depth removed at each cell
    err,        \* the exception the last call raised, "" when it returned
    steps,      \* the number of step() calls that returned
    call,       \* the last call: its name and arguments
    prevloc,    \* the arguments of the set_location call before the last one
    lastloc,    \* the arguments of the last set_location call
    lastvel,    \* the arguments of the last set_velocity call
    expected,   \* per cell, the sum over the steps taken of dt * mrr
    ctor,       \* the construction: the arguments given, the number of runs of
                \* Base.__init__ and the arguments it received
    ret,        \* what the last local_grid() returned
    res,        \* what minimize_scalar returned in the last step(), if it ran
    rec         \* whether call, prevloc, lastloc, lastvel and res are recorded

vars == <<mro, made, sim, X, Y, profile, err, steps, call, prevloc, lastloc,
          lastvel, expected, ctor, ret, res, rec>>

Cells == DOMAIN profile

\* No OptimizeResult: minimize_scalar did not run.
NoRes == [ran |-> FALSE, x |-> Zero, success |-> TRUE]

NoCall == [op |-> "__init__", a1 |-> Absent, a2 |-> Absent]

Called(op, a1, a2) == IF rec THEN [op |-> op, a1 |-> a1, a2 |-> a2] ELSE NoCall

NoLoc == <<None, None>>

\* The state after Simulation(size_x, size_y, **kw), Simulation =
\* create_simulation(*classes).
Constructed(classes, kw, recorded) ==
    LET o == Construct(classes, kw)
        cells == (1..Len(o.ys)) \X (1..Len(o.xs))
    IN  /\ mro = create_simulation(classes)
        /\ made = (o.err = "")
        /\ sim = o.a
        /\ X = [c \in cells |-> o.xs[c[2]]]
        /\ Y = [c \in cells |-> o.ys[c[1]]]
        /\ profile = [c \in cells |-> Zero]
        /\ err = o.err
        /\ steps = 0
        /\ call = NoCall
        /\ prevloc = NoLoc
        /\ lastloc = NoLoc
        /\ lastvel = NoLoc
        /\ expected = [c \in cells |-> Zero]
        /\ ctor = [kw |-> kw, base_inits |-> o.base_inits, base_kw |-> o.base_kw]
        /\ ret = <<>>
        /\ res = NoRes
        /\ rec = recorded

\* -------------------------------------------------------------- the actions
\* One action per call on the object; S is the set its arguments are drawn from.

set_location(S) ==
    /\ made
    /\ \E p \in S :
        /\ sim' = Base_set_location(sim, p[1], p[2])
        /\ call' = Called("set_location", p[1], p[2])
        /\ lastloc' = IF rec THEN p ELSE NoLoc
    /\ prevloc' = IF rec THEN lastloc ELSE NoLoc
    /\ err' = ""
    /\ UNCHANGED <<mro, made, ctor, ret, res, lastvel, X, Y, profile, steps, expected, rec>>

set_velocity(S) ==
    /\ made
    /\ \E v \in S :
        /\ sim' = Base_set_velocity(sim, v[1], v[2])
        /\ call' = Called("set_velocity", v[1], v[2])
        /\ lastvel' = IF rec THEN v ELSE NoLoc
    /\ err' = ""
    /\ UNCHANGED <<mro, made, ctor, ret, res, X, Y, profile, steps, prevloc, lastloc,
                   expected, rec>>

set_force(S) ==
    /\ made
    /\ FirstOf(mro, PressureClasses) # "none"
    /\ \E f \in S :
        /\ sim' = IF FirstOf(mro, PressureClasses) = "Flat"
                  THEN Flat_set_force(sim, f)
                  ELSE ConstantCurvature_set_force(sim, f)
        /\ call' = Called("set_force", f, Absent)
    /\ err' = ""
    /\ UNCHANGED <<mro, made, ctor, ret, res, lastvel, X, Y, profile, steps, prevloc,
                   lastloc, expected, rec>>

set_torque(S) ==
    /\ made
    /\ InMro(mro, "Flat")
    /\ \E t \in S :
        /\ sim' = Flat_set_torque(sim, t[1], t[2])
        /\ call' = Called("set_torque", t[1], t[2])
    /\ err' = ""
    /\ UNCHANGED <<mro, made, ctor, ret, res, lastvel, X, Y, profile, steps, prevloc,
                   lastloc, expected, rec>>

set_curvature(S) ==
    /\ made
    /\ InMro(mro, "ConstantCurvature")
    /\ \E k \in S :
        /\ sim' = ConstantCurvature_set_curvature(sim, k[1], k[2])
        /\ call' = Called("set_curvature", k[1], k[2])
    /\ err' = ""
    /\ UNCHANGED <<mro, made, ctor, ret, res, lastvel, X, Y, profile, steps, prevloc,
                   lastloc, expected, rec>>

\* Orbital.set_speed, when Orbital is the first velocity class of the order
set_speed_orbital(S) ==
    /\ made
    /\ FirstOf(mro, VelocityClasses) = "Orbital"
    /\ \E v \in S :
        /\ sim' = Orbital_set_speed(sim, v[1], v[2])
        /\ call' = Called("set_speed", v[1], v[2])
    /\ err' = ""
    /\ UNCHANGED <<mro, made, ctor, ret, res, lastvel, X, Y, profile, steps, prevloc,
                   lastloc, expected, rec>>

set_speed_belt(S) ==
    /\ made
    /\ FirstOf(mro, VelocityClasses) = "Belt"
    /\ \E v \in S :
        /\ sim' = Belt_set_speed(sim, v)
        /\ call' = Called("set_speed", v, Absent)
    /\ err' = ""
    /\ UNCHANGED <<mro, made, ctor, ret, res, lastvel, X, Y, profile, steps, prevloc,
                   lastloc, expected, rec>>

set_speed_rotary(S) ==
    /\ made
    /\ FirstOf(mro, VelocityClasses) = "Rotary"
    /\ \E v \in S :
        /\ sim' = Rotary_set_speed(sim, v)
        /\ call' = Called("set_speed", v, Absent)
    /\ err' = ""
    /\ UNCHANGED <<mro, made, ctor, ret, res, lastvel, X, Y, profile, steps, prevloc,
                   lastloc, expected, rec>>

\* simulation.radius = r
set_radius(S) ==
    /\ made
    /\ InMro(mro, "Round")
    /\ \E r \in S :
        /\ sim' = Round_radius(sim, r)
        /\ call' = Called("radius", r, Absent)
    /\ err' = ""
    /\ UNCHANGED <<mro, made, ctor, ret, res, lastvel, X, Y, profile, steps, prevloc,
                   lastloc, expected, rec>>

\* Rectangular.set_size(width, height), on a Rectangular that is no Square
set_size_rectangular(S) ==
    /\ made
    /\ InMro(mro, "Rectangular")
    /\ ~InMro(mro, "Square")
    /\ \E wh \in S :
        /\ sim' = Rectangular_set_size(sim, wh[1], wh[2])
        /\ call' = Called("set_size", wh[1], wh[2])
    /\ err' = ""
    /\ UNCHANGED <<mro, made, ctor, ret, res, lastvel, X, Y, profile, steps, prevloc,
                   lastloc, expected, rec>>

\* Square.set_size(width)
set_size_square(S) ==
    /\ made
    /\ InMro(mro, "Square")
    /\ \E w \in S :
        /\ sim' = Square_set_size(sim, w)
        /\ call' = Called("set_size", w, Absent)
    /\ err' = ""
    /\ UNCHANGED <<mro, made, ctor, ret, res, lastvel, X, Y, profile, steps, prevloc,
                   lastloc, expected, rec>>

\* simulation.local_grid(): returns the local grid or raises, assigns nothing
local_grid ==
    /\ made
    /\ \E g \in {Base_local_grid(sim, X, Y)} :
        /\ err' = g.err
        /\ ret' = g.v
    /\ call' = Called("local_grid", Absent, Absent)
    /\ UNCHANGED <<mro, made, ctor, res, lastvel, sim, X, Y, profile, steps, prevloc, lastloc,
                   expected, rec>>

\* simulation.plot(normalize=n)
plot(N) ==
    /\ made
    /\ \E n \in N :
        /\ profile' = Base_plot(profile, n)
        /\ call' = Called("plot", n, Absent)
    /\ err' = ""
    /\ UNCHANGED <<mro, made, ctor, ret, res, lastvel, sim, X, Y, steps, prevloc, lastloc,
                   expected, rec>>

\* The contact region of the tool at its current pose: the cells where the
\* shape, evaluated at the cell's local coordinates, is not 0.
ContactRegion(m, a) ==
    {c \in Cells : shape_cell(m, a, Sub(X[c], a.x), Sub(Y[c], a.y)) # Zero}

\* ConstantCurvature takes its depth from Depths; Flat has no depth.
DepthsOf(m, D) == IF InMro(m, "ConstantCurvature") THEN D ELSE {Zero}

\* The number of step() calls of a run.
MaxSteps == 2

\* simulation.step(); D is the set the penetration depth is drawn from and S
\* the set of the values of success minimize_scalar reports, when it runs.
step(D, S) ==
    /\ made
    /\ steps < MaxSteps
    /\ \E d \in DepthsOf(mro, D) :
        \E r \in {Base_step(mro, sim, X, Y, profile, d)} :
            /\ profile' = r.profile
            /\ err' = r.err
            /\ steps' = IF r.err = "" THEN steps + 1 ELSE steps
            /\ expected' =
                 IF r.err # "" THEN expected
                 ELSE [c \in Cells |->
                         Add(expected[c],
                             Mul(sim.dt,
                                 Mul(Mul(sim.kp,
                                         pressure(mro, sim,
                                                  [e \in Cells |-> Sub(X[e], sim.x)],
                                                  [e \in Cells |-> Sub(Y[e], sim.y)],
                                                  d).v[c]),
                                     velocity_cell(mro, sim, Sub(X[c], sim.x),
                                                   Sub(Y[c], sim.y)))))]
            /\ IF /\ rec /\ r.err = "" /\ InMro(mro, "ConstantCurvature")
                  /\ ConstantCurvature_depth(mro, sim) = "minimize"
               THEN \E ok \in S : res' = [ran |-> TRUE, x |-> d, success |-> ok]
               ELSE res' = NoRes
    /\ call' = Called("step", Absent, Absent)
    /\ UNCHANGED <<mro, made, ctor, ret, lastvel, sim, X, Y, prevloc, lastloc, rec>>

\* ------------------------------------------- the composed simulation (Spec)

Pair(i, j) == <<Num(i), Num(j)>>

\* The arguments common to the constructions of Spec: a 2 x 2 part with a
\* cell per unit, cells at x, y in {-1, 0}.
StepArgs ==
    [NoArgs EXCEPT !.size_x = Num(2), !.size_y = Num(2), !.dx = Num(1), !.dy = Num(1),
                   !.dt = Rat(1, 2), !.kp = Num(3), !.antialias_dist = Rat(1, 2)]

\* The arguments of the component class c.
ArgsOf(c, kw) ==
    CASE c = "Round" -> [kw EXCEPT !.radius = Num(1)]
      [] c = "Rectangular" -> [kw EXCEPT !.width = Num(1), !.height = Num(2)]
      [] c = "Square" -> [kw EXCEPT !.width = Num(1)]
      [] c = "Orbital" -> [kw EXCEPT !.eccentricity = Num(1)]
      [] c = "ConstantCurvature" -> [kw EXCEPT !.stiffness = Num(3), !.kx = Num(1)]
      [] OTHER -> kw

StepLocations == {Pair(0, 0), Pair(1, 1)}

StepVelocities == {Pair(2, 1)}

StepForces == {Num(2)}

StepTorques == {Pair(-1, 1)}

StepCurvatures == {Pair(1, 2)}

StepOrbitalSpeeds == {Pair(1, 2)}

StepSpeeds == {Num(1), Num(-1)}

Depths == {Zero, Num(2)}

Init ==
    \E s \in ShapeClasses, p \in PressureClasses, v \in VelocityClasses,
       b \in {PyFalse, PyTrue} :
        Constructed(<<s, p, v, "Preston">>,
                    [ArgsOf(s, ArgsOf(p, ArgsOf(v, StepArgs)))
                       EXCEPT !.auto_velocity = b, !.antialias = b],
                    FALSE)

Next ==
    \/ set_location(StepLocations)
    \/ set_velocity(StepVelocities)
    \/ set_force(StepForces)
    \/ set_torque(StepTorques)
    \/ set_curvature(StepCurvatures)
    \/ set_speed_orbital(StepOrbitalSpeeds)
    \/ set_speed_belt(StepSpeeds)
    \/ set_speed_rotary(StepSpeeds)
    \/ step(Depths, {TRUE})

Spec == Init /\ [][Next]_vars

\* ------------------------------------------------------------------ claims

\* The removal dt * mrr of the step just taken, at cell c.
Removed(c) == Sub(expected'[c], expected[c])

\* C1, as stated: no call ever lowers a cell of profile -- every cell of
\* profile is, after each step(), greater than or equal to its value before.
C1_NeverLowered ==
    [][\A c \in Cells : Sign(Sub(profile'[c], profile[c])) >= 0]_vars

\* C1, amended: a step() lowers no cell at which the removal dt * kp *
\* pressure * velocity of that step is >= 0, and it lowers every cell at
\* which that removal is negative.
C1_LoweredOnlyByNegativeRemoval ==
    [][\A c \in Cells :
          /\ Sign(Removed(c)) >= 0 => Le(profile[c], profile'[c])
          /\ Sign(Removed(c)) < 0 => Lt(profile'[c], profile[c])]_vars

\* A first step has raised one cell and lowered another.
C1_Witness ==
    /\ steps = 1
    /\ \E c, e \in Cells : Sign(profile[c]) > 0 /\ Sign(profile[e]) < 0

\* C2, as stated: step() changes profile only at the cells inside the
\* contact region of the shape at the pose of the step, the cells where
\* shape(x - self.x, y - self.y) is not 0.
C2_StepChangesOnlyContactCells ==
    [][\A c \in Cells : profile'[c] # profile[c] => c \in ContactRegion(mro, sim)]_vars

\* C3: starting from the zero profile, after n steps every cell of profile
\* is the sum over those steps of dt times the removal rate of the step.
C3_ProfileIsSumOfRemovals ==
    \A c \in Cells : profile[c] = expected[c]

\* Two steps were taken and removed material.
C3_Witness ==
    /\ steps >= 2
    /\ \E c \in Cells : profile[c] # Zero

\* C5, as stated: for Flat and for ConstantCurvature, at every force, torque
\* and curvature, pressure(X, Y) is exactly 0 at every cell where the shape
\* of the tool is 0.
C5_PressureZeroOutsideMask ==
    made =>
        \A d \in DepthsOf(mro, Depths) :
            LET p == pressure(mro, sim, X, Y, d)
            IN  p.err = "" =>
                    \A c \in Cells :
                        shape_cell(mro, sim, X[c], Y[c]) = Zero => p.v[c] = Zero

\* C8: Flat.pressure(X, Y) is force / area + x * torque_y / Iy - y * torque_x / Ix
\* at every cell, with the area, Ix and Iy of the composed shape, and is
\* force / area at every cell when both torques are 0.
C8_FlatPressure ==
    (made /\ InMro(mro, "Flat")) =>
        LET p == Flat_pressure(sim, X, Y)
        IN  /\ p.err = ""
            /\ \A c \in Cells :
                 /\ Sub(p.v[c], Div(sim.force, sim.area)) =
                        Sub(Mul(X[c], Div(sim.torque_y, sim.Iy)),
                            Mul(Y[c], Div(sim.torque_x, sim.Ix)))
                 /\ (sim.torque_x = Zero /\ sim.torque_y = Zero)
                        => p.v[c] = Div(sim.force, sim.area)

\* A Flat tool of unequal second moments under a force and both torques.
C8_Witness ==
    /\ made
    /\ InMro(mro, "Flat")
    /\ sim.Ix # sim.Iy
    /\ sim.force # Zero /\ sim.torque_x # Zero /\ sim.torque_y # Zero

\* ------------------------------------------------- motion (SpecMotion)
\* A Round, Flat tool of each velocity class, with and without auto_velocity,
\* moved and fed; the calls and the last two locations are recorded.

MotionLocations == {Pair(0, 0), Pair(1, 2), <<Rat(1, 2), Num(-1)>>}

MotionVelocities == {Pair(0, 0), Pair(4, 2)}

MotionSpeeds == {Num(5), Num(-2)}

MotionOrbitalSpeeds == {Pair(7, 8), Pair(0, 3)}

MotionSteps == {Rat(1, 2), Num(2)}

InitMotion ==
    \E v \in VelocityClasses, b \in {PyFalse, PyTrue}, dt \in MotionSteps :
        Constructed(<<"Round", "Flat", v, "Preston">>,
                    [ArgsOf("Round", ArgsOf(v, StepArgs))
                       EXCEPT !.auto_velocity = b, !.dt = dt],
                    TRUE)

NextMotion ==
    \/ set_location(MotionLocations)
    \/ set_velocity(MotionVelocities)
    \/ set_speed_orbital(MotionOrbitalSpeeds)
    \/ set_speed_belt(MotionSpeeds)
    \/ set_speed_rotary(MotionSpeeds)

SpecMotion == InitMotion /\ [][NextMotion]_vars

VelocityAt(c) == velocity_cell(mro, sim, X[c], Y[c])

\* The square of the distance of cell c from the centre of the tool.
RadiusSq(c) == Add(Mul(X[c], X[c]), Mul(Y[c], Y[c]))

\* The square of the tool-motion term of each velocity class at cell c.
MotionSq(c) ==
    CASE InMro(mro, "Belt") -> Mul(sim.speed, sim.speed)
      [] InMro(mro, "Rotary") -> Mul(RadiusSq(c), Mul(sim.speed, sim.speed))
      [] InMro(mro, "Orbital") ->
            Add(Mul(Mul(sim.eccentricity, sim.orbital_speed),
                    Mul(sim.eccentricity, sim.orbital_speed)),
                Mul(RadiusSq(c), Mul(sim.rotational_speed, sim.rotational_speed)))

\* The square of the feed velocity.
FeedSq == Add(Mul(sim.vl_x, sim.vl_x), Mul(sim.vl_y, sim.vl_y))

\* The speed of Belt and Rotary is not negative (Orbital speeds are squared).
SpeedNotNegative == InMro(mro, "Orbital") \/ Sign(sim.speed) >= 0

\* C6, as stated, for speeds that are not negative: velocity(x, y) is the
\* root of the sum of the squares of the tool-motion term and of the feed
\* velocity (vl_x, vl_y).
C6_QuadratureWithFeed ==
    (made /\ SpeedNotNegative) =>
        \A c \in Cells : VelocityAt(c) = Sqrt(Add(MotionSq(c), FeedSq))

\* C6, amended: velocity(x, y) is the tool-motion term alone -- Belt: speed,
\* Rotary: sqrt(x^2 + y^2) * speed, Orbital: sqrt((eccentricity *
\* orbital_speed)^2 + (x^2 + y^2) * rotational_speed^2) -- and is the
\* quadrature of that term and the feed velocity when the feed velocity is
\* (0, 0) and the speed is not negative.
C6_MotionTermOnly ==
    made =>
        \A c \in Cells :
            /\ VelocityAt(c) =
                 CASE InMro(mro, "Belt") -> sim.speed
                   [] InMro(mro, "Rotary") -> Mul(Sqrt(RadiusSq(c)), sim.speed)
                   [] InMro(mro, "Orbital") -> Sqrt(MotionSq(c))
            /\ (FeedSq = Zero /\ SpeedNotNegative)
                  => VelocityAt(c) = Sqrt(Add(MotionSq(c), FeedSq))

\* Rotary at speed 5 under the feed velocity (4, 2).
C6_Witness ==
    /\ made /\ InMro(mro, "Rotary")
    /\ sim.speed = Num(5)
    /\ sim.vl_x = Num(4) /\ sim.vl_y = Num(2)

\* C7: under a feed velocity that is not (0, 0), velocity(x, y) is what it is
\* under the feed velocity (0, 0), and it is the tool-motion term: its square
\* is the square of that term and its sign is that of the speed (Belt,
\* Rotary away from the centre) or not negative (Orbital).
C7_IndependentOfFeed ==
    (made /\ FeedSq # Zero) =>
        \A c \in Cells :
            /\ VelocityAt(c) =
                 velocity_cell(mro, [sim EXCEPT !.vl_x = Zero, !.vl_y = Zero], X[c], Y[c])
            /\ Mul(VelocityAt(c), VelocityAt(c)) = MotionSq(c)
            /\ Sign(VelocityAt(c)) =
                 CASE InMro(mro, "Belt") -> Sign(sim.speed)
                   [] InMro(mro, "Rotary") -> Sign(RadiusSq(c)) * Sign(sim.speed)
                   [] InMro(mro, "Orbital") -> Sign(MotionSq(c))

\* set_velocity has just set a feed velocity that is not (0, 0), after a
\* set_speed that makes the tool move.
C7_Witness ==
    /\ made /\ call.op = "set_velocity"
    /\ FeedSq # Zero
    /\ \A c \in Cells : VelocityAt(c) # Zero

\* ------------------------------------------------- geometry (SpecShape)
\* A tool of each shape class, resized; the calls are recorded.

\* The radii, widths and heights are the halves k / 2, k in 0 .. MaxSize.
MaxSize == 8

Sizes == {Rat(k, 2) : k \in 0..MaxSize}

InitShape ==
    \E s \in ShapeClasses, p \in PressureClasses :
        Constructed(<<s, p, "Belt", "Preston">>, ArgsOf(s, ArgsOf(p, StepArgs)), TRUE)

NextShape ==
    \/ set_radius(Sizes)
    \/ set_size_rectangular(Sizes \X Sizes)
    \/ set_size_square(Sizes)

SpecShape == InitShape /\ [][NextShape]_vars

\* C9: after the construction and after every radius assignment and set_size
\* call the geometry is the one given and the derived attributes are those
\* of that geometry: Round has area = pi r^2 and Ix = Iy = pi r^4 / 4;
\* Rectangular has area = width height, Ix = width height^3 / 12 and
\* Iy = width^3 height / 12.
C9_DerivedGeometry ==
    made =>
        /\ InMro(mro, "Round") =>
             /\ call.op = "radius" => sim.r = call.a1
             /\ sim.area = Mul(np_pi, Mul(sim.r, sim.r))
             /\ Mul(Num(4), sim.Ix) = Mul(np_pi, Mul(Mul(sim.r, sim.r), Mul(sim.r, sim.r)))
             /\ sim.Iy = sim.Ix
        /\ InMro(mro, "Rectangular") =>
             /\ (call.op = "set_size" /\ call.a2 # Absent)
                   => (sim.width = call.a1 /\ sim.height = call.a2)
             /\ sim.area = Mul(sim.width, sim.height)
             /\ Mul(Num(12), sim.Ix) =
                    Mul(sim.width, Mul(sim.height, Mul(sim.height, sim.height)))
             /\ Mul(Num(12), sim.Iy) =
                    Mul(Mul(sim.width, Mul(sim.width, sim.width)), sim.height)

\* set_size has just given a Rectangular a width and a height that differ.
C9_Witness ==
    /\ made /\ InMro(mro, "Rectangular") /\ ~InMro(mro, "Square")
    /\ call.op = "set_size"
    /\ sim.width = Rat(3, 2) /\ sim.height = Num(4)

\* C10: a Square has width = height after the construction and after every
\* set_size(width), the width being the one given, and its area, Ix and Iy
\* are width^2, width^4 / 12 and width^4 / 12.
C10_SquareGeometry ==
    (made /\ InMro(mro, "Square")) =>
        /\ call.op = "set_size" => sim.width = call.a1
        /\ sim.height = sim.width
        /\ sim.area = Pow2(sim.width)
        /\ sim.Ix = Div(Pow4(sim.width), Num(12))
        /\ sim.Iy = Div(Pow4(sim.width), Num(12))

\* set_size has just resized a Square.
C10_Witness ==
    /\ made /\ InMro(mro, "Square")
    /\ call.op = "set_size"
    /\ sim.width = Num(3) /\ sim.height = Num(3)

\* ------------------------------------------------ the local grid (SpecGrid)
\* A Round tool of each pressure and velocity class, with kp given or left
\* to its default, loaded, moved, asked for its local grid and stepped; the
\* calls are recorded.

InitGrid ==
    \E p \in PressureClasses, v \in VelocityClasses, kp \in {Absent, Num(3)} :
        Constructed(<<"Round", p, v, "Preston">>,
                    [ArgsOf("Round", ArgsOf(p, ArgsOf(v, StepArgs))) EXCEPT !.kp = kp],
                    TRUE)

NextGrid ==
    \/ set_location(StepLocations)
    \/ set_velocity(StepVelocities)
    \/ set_force(StepForces)
    \/ set_speed_orbital(StepOrbitalSpeeds)
    \/ set_speed_belt(StepSpeeds)
    \/ set_speed_rotary(StepSpeeds)
    \/ local_grid
    \/ step(Depths, {TRUE})

SpecGrid == InitGrid /\ [][NextGrid]_vars

\* The coordinates of the cells in the frame of the tool.
LocalX == [c \in Cells |-> Sub(X[c], sim.x)]

LocalY == [c \in Cells |-> Sub(Y[c], sim.y)]

C19_LocalGridPure ==
    [][(call'.op = "local_grid" /\ sim.x # None) =>
          /\ err' = ""
          /\ DOMAIN ret'.gx = Cells /\ DOMAIN ret'.gy = Cells
          /\ \A c \in Cells :
                Add(ret'.gx[c], sim.x) = X[c] /\ Add(ret'.gy[c], sim.y) = Y[c]
          /\ X' = X /\ Y' = Y /\ sim' = sim /\ profile' = profile]_vars

\* local_grid() has returned the grid of a tool posed away from the origin.
C19_Witness ==
    /\ made /\ call.op = "local_grid" /\ err = ""
    /\ sim.x = Num(1) /\ sim.y = Num(1)
    /\ \A c \in Cells : ret.gx[c] # X[c]

\* C20: local_grid() and step() on a tool that set_location never posed
\* raise an exception: no grid is returned, profile is not changed and no
\* step is counted, whatever set_velocity, set_force and set_speed did before.
C20_NoPoseFails ==
    [][(call'.op \in {"local_grid", "step"} /\ sim.x = None) =>
          /\ err' # ""
          /\ ret' = <<>>
          /\ profile' = profile /\ steps' = steps]_vars

\* step() has failed on a loaded and fed tool that was never posed.
C20_Witness ==
    /\ made /\ call.op = "step" /\ err = "TypeError"
    /\ sim.x = None
    /\ sim.force # Zero /\ sim.vl_x # Zero

\* ------------------------------------------------ shape weights (SpecShape)

\* The coordinates shape is called with, one point at a time: the halves
\* from -MaxSize / 2 to MaxSize / 2.
Points == Sizes \cup {Neg(z) : z \in Sizes}

\* self.shape(x, y) for the numbers x and y
ShapeAt(x, y) == shape_cell(mro, sim, x, y)

\* C14, as stated: shape(x, y) is a weight w with 0 <= w <= 1, whatever the
\* shape class, the geometry and the point.
C14_WeightBetweenZeroAndOne ==
    made => \A x \in Points, y \in Points :
                Le(Zero, ShapeAt(x, y)) /\ Le(ShapeAt(x, y), Num(1))

\* x^2 + y^2 - r^2, the argument Round.shape gives to _antialias
RoundExcess(x, y) == Sub(Add(Pow2(x), Pow2(y)), Pow2(sim.r))

\* C15, as stated: the weight of Round.shape is non-zero only where
\* x^2 + y^2 < r^2 and zero only where x^2 + y^2 > r^2; beyond the
\* antialiasing band it is 1 inside and 0 outside.
C15_RoundShapeInsideCircle ==
    (made /\ InMro(mro, "Round")) =>
        \A x \in Points, y \in Points :
            /\ ShapeAt(x, y) # Zero => Sign(RoundExcess(x, y)) < 0
            /\ ShapeAt(x, y) = Zero => Sign(RoundExcess(x, y)) > 0
            /\ Lt(RoundExcess(x, y), Neg(sim.antialias_dist)) => ShapeAt(x, y) = Num(1)
            /\ Lt(sim.antialias_dist, RoundExcess(x, y)) => ShapeAt(x, y) = Zero

\* |x| < half and |y| < half2
Within(x, y, half, half2) ==
    /\ Lt(Neg(half), x) /\ Lt(x, half)
    /\ Lt(Neg(half2), y) /\ Lt(y, half2)

\* C16, as stated: the weight of Rectangular.shape (and of Square) is
\* non-zero only where |x| < width / 2 and |y| < height / 2, and zero only
\* where |x| > width / 2 or |y| > height / 2; inside, beyond the antialiasing
\* band, it is 1.
C16_RectangularShapeInsideRectangle ==
    (made /\ InMro(mro, "Rectangular")) =>
        \A x \in Points, y \in Points :
            LET hw == Div(sim.width, Num(2))
                hh == Div(sim.height, Num(2))
            IN  /\ ShapeAt(x, y) # Zero => Within(x, y, hw, hh)
                /\ ShapeAt(x, y) = Zero =>
                      (Lt(hw, x) \/ Lt(x, Neg(hw)) \/ Lt(hh, y) \/ Lt(y, Neg(hh)))
                /\ Within(x, y, Sub(hw, sim.antialias_dist), Sub(hh, sim.antialias_dist))
                      => ShapeAt(x, y) = Num(1)

\* ------------------------------------------- construction (SpecConstruct)
\* Every component class alone and every composition of a shape, a pressure,
\* a velocity and Preston, in both orders of shape and pressure, constructed
\* with each of its keyword arguments given or omitted; an object that was
\* made is then posed and asked for its local grid.

Compositions ==
    {<<c>> : c \in ShapeClasses \cup {"Orbital", "ConstantCurvature"}}
    \cup {<<s, p, v, "Preston">> :
            s \in ShapeClasses, p \in PressureClasses, v \in VelocityClasses}
    \cup {<<p, s, v, "Preston">> :
            s \in ShapeClasses, p \in PressureClasses, v \in VelocityClasses}

\* The keyword arguments the classes of the order m take, all given.
AllArgs(m) ==
    [NoArgs EXCEPT
       !.size_x = Num(2), !.size_y = Num(2), !.dx = Num(1), !.dy = Num(1),
       !.dt = Rat(1, 2), !.auto_velocity = PyTrue,
       !.antialias_dist = IF InMro(m, "BaseShape") THEN Rat(1, 2) ELSE Absent,
       !.radius = IF InMro(m, "Round") THEN Num(1) ELSE Absent,
       !.width = IF InMro(m, "Rectangular") THEN Num(1) ELSE Absent,
       !.height = IF InMro(m, "Rectangular") /\ ~InMro(m, "Square")
                  THEN Num(2) ELSE Absent,
       !.eccentricity = IF InMro(m, "Orbital") THEN Num(1) ELSE Absent,
       !.stiffness = IF InMro(m, "ConstantCurvature") THEN Num(3) ELSE Absent,
       !.kx = IF InMro(m, "ConstantCurvature") THEN Num(1) ELSE Absent,
       !.kp = IF InMro(m, "Preston") THEN Num(3) ELSE Absent]

\* The arguments that may be omitted.
Omittable ==
    {"radius", "width", "height", "eccentricity", "stiffness", "antialias_dist",
     "kp", "kx"}

\* kw without the arguments of D.
Omit(kw, D) == [f \in DOMAIN kw |-> IF f \in D THEN Absent ELSE kw[f]]

ConstructLocations == {Pair(1, 1)}

InitConstruct ==
    \E classes \in Compositions :
        \E all \in {AllArgs(create_simulation(classes))} :
            \E D \in SUBSET {f \in Omittable : all[f] # Absent} :
                Constructed(classes, Omit(all, D), TRUE)

NextConstruct ==
    \/ set_location(ConstructLocations)
    \/ local_grid

SpecConstruct == InitConstruct /\ [][NextConstruct]_vars

\* C11, as stated: the construction of a Round without radius, and of a
\* Rectangular without width, without height or without both, raises
\* ValueError.
C11_MissingGeometryRaisesValueError ==
    (\/ InMro(mro, "Round") /\ ctor.kw.radius = Absent
     \/ /\ InMro(mro, "Rectangular") /\ ~InMro(mro, "Square")
        /\ (ctor.kw.width = Absent \/ ctor.kw.height = Absent))
        => (~made /\ err = "ValueError")

RequiredGiven ==
    /\ InMro(mro, "Round") => ctor.kw.radius # Absent
    /\ InMro(mro, "Rectangular") => ctor.kw.width # Absent
    /\ (InMro(mro, "Rectangular") /\ ~InMro(mro, "Square")) => ctor.kw.height # Absent
    /\ InMro(mro, "Orbital") => ctor.kw.eccentricity # Absent
    /\ InMro(mro, "ConstantCurvature") => ctor.kw.stiffness # Absent

\* C13, as stated: the construction of a composition with a shape, given
\* what its classes require and no antialias_dist, returns an object whose
\* antialias_dist is sqrt(dx^2 + dy^2), dx and dy being the spacing of the
\* grid, 0.001 when not given.
C13_DefaultAntialiasDist ==
    (InMro(mro, "BaseShape") /\ RequiredGiven /\ ctor.kw.antialias_dist = Absent) =>
        /\ made
        /\ Sign(sim.antialias_dist) > 0
        /\ Mul(sim.antialias_dist, sim.antialias_dist) =
             Add(Mul(Arg(ctor.kw.dx, DefaultSpacing), Arg(ctor.kw.dx, DefaultSpacing)),
                 Mul(Arg(ctor.kw.dy, DefaultSpacing), Arg(ctor.kw.dy, DefaultSpacing)))

\* The object is a composition of a shape, a pressure, a velocity and Preston.
FullComposition ==
    /\ InMro(mro, "BaseShape") /\ InMro(mro, "Preston")
    /\ FirstOf(mro, PressureClasses) # "none"
    /\ FirstOf(mro, VelocityClasses) # "none"

\* C18: the construction of a composition of a shape, a pressure, a velocity
\* and Preston never runs Base.__init__ twice; given what its classes
\* require (and antialias_dist) it returns an object; an object returned
\* has run it once; and Base received the size, the spacing, dt and
\* auto_velocity of the caller and none of radius, width, height,
\* eccentricity, kp, stiffness, kx, ky, antialias and antialias_dist.
C18_BaseInitializedOnce ==
    FullComposition =>
        /\ ctor.base_inits \in {0, 1}
        /\ made => ctor.base_inits = 1
        /\ (RequiredGiven /\ ctor.kw.antialias_dist # Absent) => made
        /\ ctor.base_inits = 1 =>
             /\ ctor.base_kw.size_x = ctor.kw.size_x
             /\ ctor.base_kw.size_y = ctor.kw.size_y
             /\ Arg(ctor.base_kw.dx, DefaultSpacing) = Arg(ctor.kw.dx, DefaultSpacing)
             /\ Arg(ctor.base_kw.dy, DefaultSpacing) = Arg(ctor.kw.dy, DefaultSpacing)
             /\ ctor.base_kw.dt = ctor.kw.dt
             /\ ctor.base_kw.auto_velocity = ctor.kw.auto_velocity
             /\ \A f \in {"radius", "width", "height", "eccentricity", "kp", "stiffness",
                          "kx", "ky", "antialias", "antialias_dist"} :
                    ctor.base_kw[f] = Absent
             /\ made => /\ sim.dt = ctor.kw.dt
                        /\ sim.auto_vel = ctor.kw.auto_velocity
                        /\ \A c \in Cells :
                              (c[2] > 1) =>
                                 Sub(X[c], X[<<c[1], c[2] - 1>>]) =
                                     Arg(ctor.kw.dx, DefaultSpacing)

\* A composition with ConstantCurvature was constructed with a spacing of
\* its own and with every component argument, and Base ran once.
C18_Witness ==
    /\ made /\ FullComposition /\ InMro(mro, "ConstantCurvature")
    /\ ctor.kw.dx = Num(1) /\ ctor.kw.kp = Num(3)
    /\ ctor.base_inits = 1

\* ------------------------------------------- every operation (SpecProfile)
\* A flat belt tool, rectangular or square, under every operation it has:
\* the setters, set_size, local_grid, step and plot; the calls are recorded.

InitProfile ==
    \E s \in {"Rectangular", "Square"} :
        Constructed(<<s, "Flat", "Belt", "Preston">>, ArgsOf(s, StepArgs), TRUE)

NextProfile ==
    \/ set_location({Pair(0, 0)})
    \/ set_velocity(StepVelocities)
    \/ set_force(StepForces)
    \/ set_torque(StepTorques)
    \/ set_speed_belt(StepSpeeds)
    \/ set_size_rectangular({<<Zero, Num(1)>>})
    \/ set_size_square({Zero})
    \/ local_grid
    \/ step(Depths, BOOLEAN)
    \/ plot({PyFalse, PyTrue})

SpecProfile == InitProfile /\ [][NextProfile]_vars

\* C21: a step() that raises leaves every cell of profile as it was, and a
\* step() that returns has added dt * mrr to every cell (a cell that is nan
\* or an infinity absorbs what is added) and counts as a step.
C21_StepAtomic ==
    [][call'.op = "step" =>
         IF err' # ""
         THEN profile' = profile /\ steps' = steps
         ELSE /\ steps' = steps + 1
              /\ \A c \in Cells :
                    profile'[c] = IF Finite(profile[c])
                                  THEN Add(profile[c], Removed(c))
                                  ELSE profile[c]]_vars

\* A step() failed on a profile that an earlier step() had changed, and
\* left it so.
C21_Witness ==
    /\ call.op = "step" /\ err = "ZeroDivisionError" /\ steps >= 1
    /\ \E c \in Cells : profile[c] # Zero /\ Finite(profile[c])

\* C22, as stated: no call other than step() changes a cell of profile --
\* the setters, the geometry setters, local_grid and plot, with any
\* normalize, leave the profile as it was.
C22_OnlyStepChangesProfile ==
    [][call'.op # "step" => profile' = profile]_vars

\* ------------------------------------------- the pressure integral (Spec)

\* np.sum(v) over the cells of C
RECURSIVE np_sum(_, _)
np_sum(v, C) ==
    IF C = {} THEN Zero
    ELSE LET c == CHOOSE c \in C : TRUE
         IN  Add(v[c], np_sum(v, C \ {c}))

\* C23, as stated: for a Round or Square tool under a force and no torque,
\* pressure(X, Y) returns a field whose sum times dx dy is the force, to
\* 1/100, whatever depth the solver arrives at.
C23_PressureIntegratesToForce ==
    (/\ made
     /\ InMro(mro, "Round") \/ InMro(mro, "Square")
     /\ InMro(mro, "Flat") => (sim.torque_x = Zero /\ sim.torque_y = Zero))
    => \A d \in DepthsOf(mro, Depths) :
          \E p \in {pressure(mro, sim, X, Y, d)} :
              /\ p.err = ""
              /\ \E e \in {Sub(Mul(np_sum(p.v, Cells), Mul(ctor.kw.dx, ctor.kw.dy)),
                               sim.force)} :
                    /\ SignOf(Sub(e, Rat(1, 100))) < 0
                    /\ SignOf(Add(e, Rat(1, 100))) > 0

\* ------------------------------------------- penetration depth (SpecDepth)
\* A belt tool, round or square, on a surface of constant curvature, with
\* and without antialiasing; force, curvature and size are set and steps
\* taken, and minimize_scalar reports success or not.

InitDepth ==
    \E s \in {"Round", "Square"}, b \in {PyFalse, PyTrue} :
        Constructed(<<s, "ConstantCurvature", "Belt", "Preston">>,
                    [ArgsOf(s, ArgsOf("ConstantCurvature", StepArgs))
                       EXCEPT !.antialias = b],
                    TRUE)

NextDepth ==
    \/ set_location({Pair(0, 0)})
    \/ set_force(StepForces)
    \/ set_speed_belt(StepSpeeds)
    \/ set_curvature({Pair(0, 0), Pair(1, -1), Pair(1, 1)})
    \/ set_radius({Zero, Rat(1, 2)})
    \/ set_size_square({Zero, Num(2)})
    \/ step(Depths, BOOLEAN)

SpecDepth == InitDepth /\ [][NextDepth]_vars

\* C24, as stated: for a tool of non-zero area, ConstantCurvature.pressure
\* takes its depth from a closed form only for a Round tool whose
\* curvatures are not of opposite sign, from the minimisation for a tool
\* that is not Round and for curvatures of opposite sign, and in every case
\* from one of the two.
C24_ClosedFormOnlyForRoundSameSign ==
    (made /\ sim.area # Zero) =>
        \E src \in {ConstantCurvature_depth(mro, sim)} :
            /\ src \in {"small", "full"} =>
                  (InMro(mro, "Round") /\ Sign(sim.kx) * Sign(sim.ky) >= 0)
            /\ (~InMro(mro, "Round") \/ Sign(sim.kx) * Sign(sim.ky) < 0) =>
                  src = "minimize"
            /\ src \in {"small", "full", "minimize"}

\* C25, as stated: a step() in which minimize_scalar ran and did not report
\* success raises an error and leaves the profile as it was.
C25_NonConvergenceRaises ==
    [][(call'.op = "step" /\ res'.ran /\ ~res'.success) =>
           (err' # "" /\ profile' = profile /\ steps' = steps)]_vars

\* C26, as stated: with antialias=False the weight is 1 at the points inside
\* the outline of the tool (x^2 + y^2 <= r^2 for Round, inside the width x
\* height rectangle for Rectangular) and 0 at the points outside it.
C26_HardMaskWithoutAntialias ==
    (made /\ sim.antialias = PyFalse) =>
        \A x \in Points, y \in Points :
            IF InMro(mro, "Round")
            THEN ShapeAt(x, y) = IF Sign(RoundExcess(x, y)) <= 0 THEN Num(1) ELSE Zero
            ELSE /\ Within(x, y, Div(sim.width, Num(2)), Div(sim.height, Num(2)))
                      => ShapeAt(x, y) = Num(1)
                 /\ (\/ Lt(Div(sim.width, Num(2)), x) \/ Lt(x, Neg(Div(sim.width, Num(2))))
                     \/ Lt(Div(sim.height, Num(2)), y) \/ Lt(y, Neg(Div(sim.height, Num(2)))))
                      => ShapeAt(x, y) = Zero

\* ------------------------------------------- pose and velocity (SpecGrid)

\* C27: with auto_velocity disabled, set_location changes the pose and
\* nothing else of the object, set_velocity changes the velocity and nothing
\* else, and at every step() the velocity of the object is the one given in
\* the last set_velocity call, (0, 0) if there was none.
C27_PoseAndVelocityIndependent ==
    [][~Truthy(sim.auto_vel) =>
         /\ call'.op = "set_location" =>
               sim' = [sim EXCEPT !.x = call'.a1, !.y = call'.a2]
         /\ call'.op = "set_velocity" =>
               sim' = [sim EXCEPT !.vl_x = call'.a1, !.vl_y = call'.a2]
         /\ call'.op = "step" =>
               /\ sim' = sim
               /\ <<sim.vl_x, sim.vl_y>> =
                     IF lastvel = NoLoc THEN <<Zero, Zero>> ELSE lastvel]_vars

\* A step() was taken at a pose set after the velocity, a pose that is not
\* the origin, with the velocity of set_velocity still in place.
C27_Witness ==
    /\ made /\ ~Truthy(sim.auto_vel)
    /\ call.op = "step" /\ err = ""
    /\ lastvel # NoLoc /\ sim.vl_x = lastvel[1] /\ sim.vl_x # Zero
    /\ sim.x = Num(1)

\* ------------------------------------------------- velocity override (SpecMotion)

\* C28: with auto_velocity enabled, a set_location that follows a
\* set_velocity leaves the velocity (p - previous pose) / dt, and (0, 0) if
\* it is the first set_location, whatever the velocity given was.
C28_OverrideLastsUntilNextLocation ==
    [][(Truthy(sim.auto_vel) /\ call.op = "set_velocity" /\ call'.op = "set_location") =>
           /\ sim'.x = call'.a1 /\ sim'.y = call'.a2
           /\ sim'.vl_x = IF sim.x = None THEN Zero
                          ELSE Div(Sub(call'.a1, sim.x), sim.dt)
           /\ sim'.vl_y = IF sim.y = None THEN Zero
                          ELSE Div(Sub(call'.a2, sim.y), sim.dt)]_vars

\* A set_location has replaced a non-zero velocity given through
\* set_velocity by a different one.
C28_Witness ==
    /\ made /\ Truthy(sim.auto_vel) /\ call.op = "set_location"
    /\ lastvel # NoLoc /\ lastvel[1] # Zero
    /\ sim.vl_x # lastvel[1] /\ sim.vl_y # lastvel[2]

\* ------------------------------------------- component order (SpecConstruct)

\* C29, as stated: the construction of the same components in another order,
\* with the same arguments, has the same outcome -- an object with the same
\* attributes and the same grid, or the same error.
C29_OrderIndependent ==
    call.op = "__init__" =>
        \A classes \in Compositions :
            {classes[i] : i \in 1..Len(classes)} \subseteq {mro[i] : i \in 1..Len(mro)}
            /\ Len(create_simulation(classes)) = Len(mro)
            => \E o \in {Construct(classes, ctor.kw)} :
                  /\ o.err = err
                  /\ made => o.a = sim

====
